---------------------------- MODULE Spec2Model ----------------------------
(***************************************************************************)
(* A model of restful_api_guidelines_linter/cli.py: the compatibility      *)
(* layer, the eight lint_* rules, run_linter and the cli command.          *)
(*                                                                         *)
(* Python values are modelled as tagged nodes [t, v]:                      *)
(*   t = "dict"  v = the items, a sequence of [k, v] in insertion order    *)
(*   t = "list"  v = the elements, a sequence of nodes                     *)
(*   t = "str"   v = the text, a sequence of code points                   *)
(*   t = "int"   v = the number                                            *)
(*   t = "null"  v = 0                                                     *)
(* A computation that can raise returns [raised, val].                     *)
(***************************************************************************)
EXTENDS Integers, Sequences, FiniteSets, TLC

VARIABLES
    doc,        \* the parsed input of the run (yaml.safe_load's result)
    docB,       \* the same document with other status-code key types (second run)
    spec,       \* doc after compatibility_layer
    specB,      \* docB after compatibility_layer
    pc,         \* position of the run
    exc,        \* the exception that left the run, "" when none
    valid,      \* validate_spec's verdict on spec
    validB,     \* validate_spec's verdict on specB
    done,       \* the rules whose loop iteration has run
    issues,     \* run_linter's local list of issues
    result,     \* the list run_linter returned
    resultB,    \* the list the second run returned
    platform,   \* the platform the process exits on
    exit_code,  \* the exit status the parent process observes
    definitions, \* lint_property_names' worklist
    yielded,    \* what lint_property_names has yielded so far
    visited     \* the (name, node) pairs the worklist loop has popped

vars == <<doc, docB, spec, specB, pc, exc, valid, validB, done, issues,
          result, resultB, platform, exit_code, definitions, yielded, visited>>

----------------------------------------------------------------------------
(* Bounds of the model. *)

\* most path templates in a document of the runner
MaxPaths == 2
\* deepest nesting of object-typed properties below a definition
MaxDepth == 3
\* most issues run_linter hands to the cli command in the exit-status check
MaxIssues == 300

----------------------------------------------------------------------------
(* Python values. *)

Str(s)   == [t |-> "str", v |-> s]
Num(n)   == [t |-> "int", v |-> n]
Dict(kv) == [t |-> "dict", v |-> kv]
List(xs) == [t |-> "list", v |-> xs]
Null     == [t |-> "null", v |-> 0]
KV(k, x) == [k |-> k, v |-> x]
EmptyDict == Dict(<<>>)

Ok(x)  == [raised |-> FALSE, val |-> x]
Raise  == [raised |-> TRUE, val |-> Null]

\* isinstance(x, dict)
IsDict(x) == x.t = "dict"
IsStr(x)  == x.t = "str"

\* k in d
Has(d, k) == \E i \in 1..Len(d.v) : d.v[i].k = k

\* d.get(k, default) on a dict d
Get(d, k, default) ==
    IF Has(d, k)
    THEN d.v[CHOOSE i \in 1..Len(d.v) : d.v[i].k = k].v
    ELSE default

\* d[k] = x: an existing key keeps its position, a new key goes last
DictSet(d, k, x) ==
    IF Has(d, k)
    THEN Dict([i \in 1..Len(d.v) |-> IF d.v[i].k = k THEN KV(k, x) ELSE d.v[i]])
    ELSE Dict(Append(d.v, KV(k, x)))

\* the keys of a dict, as a set
Keys(d) == {d.v[i].k : i \in 1..Len(d.v)}

----------------------------------------------------------------------------
(* Text: sequences of code points. *)

S_paths       == <<112,97,116,104,115>>                        \* 'paths'
S_parameters  == <<112,97,114,97,109,101,116,101,114,115>>     \* 'parameters'
S_responses   == <<114,101,115,112,111,110,115,101,115>>       \* 'responses'
S_basePath    == <<98,97,115,101,80,97,116,104>>               \* 'basePath'
S_ref         == <<36,114,101,102>>                            \* '$ref'
S_type        == <<116,121,112,101>>                           \* 'type'
S_query       == <<113,117,101,114,121>>                       \* 'query'
S_name        == <<110,97,109,101>>                            \* 'name'
S_definitions == <<100,101,102,105,110,105,116,105,111,110,115>> \* 'definitions'
S_object      == <<111,98,106,101,99,116>>                     \* 'object'
S_properties  == <<112,114,111,112,101,114,116,105,101,115>>   \* 'properties'
S_schema      == <<115,99,104,101,109,97>>                     \* 'schema'
S_post        == <<112,111,115,116>>                           \* 'post'
S_get         == <<103,101,116>>                               \* 'get'
S_wellknown   == <<46,119,101,108,108,45,107,110,111,119,110>> \* '.well-known'
S_array       == <<97,114,114,97,121>>                         \* 'array'
S_string      == <<115,116,114,105,110,103>>                   \* 'string'

\* a < b for str: lexicographic by code point
StrLess(a, b) ==
    \/ /\ Len(a) < Len(b)
       /\ \A i \in 1..Len(a) : a[i] = b[i]
    \/ \E i \in 1..Len(a) :
          /\ i <= Len(b)
          /\ a[i] < b[i]
          /\ \A j \in 1..(i - 1) : a[j] = b[j]

\* s.endswith(<<c>>)
EndsWith(s, c) == Len(s) > 0 /\ s[Len(s)] = c

\* the decimal digits of a natural number, most significant first
RECURSIVE Decimal(_)
Decimal(n) == IF n < 10 THEN <<48 + n>> ELSE Append(Decimal(n \div 10), 48 + (n % 10))

\* str(x) for a mapping key: an int becomes its decimal text, a str is itself
str(x) == IF x.t = "int" THEN Str(Decimal(x.v)) ELSE x

----------------------------------------------------------------------------
(* compatibility_layer *)

\* a slip: the keys are taken as they are, without str()
RECURSIVE response_definitions_as_is(_, _)
response_definitions_as_is(items, acc) ==
    IF items = <<>> THEN acc
    ELSE response_definitions_as_is(Tail(items), DictSet(acc, Head(items).k, Head(items).v))

\* lines 30-33: the new responses mapping, built key by key
RECURSIVE response_definitions(_, _)
response_definitions(items, acc) ==
    IF items = <<>> THEN acc
    ELSE response_definitions(Tail(items), DictSet(acc, str(Head(items).k), Head(items).v))

\* lines 26-35 for one entry of a path item
compat_method(method_name, method_def) ==
    IF method_name = Str(S_parameters) \/ ~IsDict(method_def)
    THEN Ok(method_def)
    ELSE LET responses == Get(method_def, Str(S_responses), EmptyDict)
         IN  IF ~IsDict(responses)
             THEN Raise      \* AttributeError: no attribute 'items'
             ELSE Ok(DictSet(method_def, Str(S_responses),
                             response_definitions(responses.v, EmptyDict)))

\* line 25 for one path item
compat_path(methods_available) ==
    IF ~IsDict(methods_available)
    THEN Raise               \* AttributeError: no attribute 'items'
    ELSE LET r == [i \in 1..Len(methods_available.v) |->
                      compat_method(methods_available.v[i].k, methods_available.v[i].v)]
         IN  IF \E i \in 1..Len(r) : r[i].raised
             THEN Raise
             ELSE Ok(Dict([i \in 1..Len(r) |-> KV(methods_available.v[i].k, r[i].val)]))

compatibility_layer(s) ==
    IF ~IsDict(s) THEN Ok(s)
    ELSE LET paths == Get(s, Str(S_paths), EmptyDict)
         IN  IF ~IsDict(paths)
             THEN Raise      \* AttributeError: no attribute 'items'
             ELSE LET r == [i \in 1..Len(paths.v) |-> compat_path(paths.v[i].v)]
                  IN  IF \E i \in 1..Len(r) : r[i].raised
                      THEN Raise
                      ELSE IF ~Has(s, Str(S_paths))
                           THEN Ok(s)
                           ELSE Ok(DictSet(s, Str(S_paths),
                                    Dict([i \in 1..Len(r) |-> KV(paths.v[i].k, r[i].val)])))

----------------------------------------------------------------------------
(* Text operations the rules use. *)

S_loc_paths     == <<112,97,116,104,115,47,34>>                \* 'paths/"'
S_quote         == <<34>>                                      \* '"'
S_slash         == <<47>>                                      \* '/'
S_loc_responses == <<47,114,101,115,112,111,110,115,101,115,47>> \* '/responses/'
S_loc_defs      == <<100,101,102,105,110,105,116,105,111,110,115,47>> \* 'definitions/'
\* 'the POST method is used on a path ending with a path variable'
S_msg_post == <<116,104,101,32,80,79,83,84,32,109,101,116,104,111,100,32,105,115,32,
                117,115,101,100,32,111,110,32,97,32,112,97,116,104,32,101,110,100,105,
                110,103,32,119,105,116,104,32,97,32,112,97,116,104,32,118,97,114,105,
                97,98,108,101>>
\* '" is not in plural form'
S_msg_plural == <<34,32,105,115,32,110,111,116,32,105,110,32,112,108,117,114,97,108,32,
                  102,111,114,109>>

IsLower(c) == c >= 97 /\ c <= 122
IsDigit(c) == c >= 48 /\ c <= 57

\* '{}'.format(x) for a str or an int
Fmt(x) == str(x).v

\* s without one trailing newline: what '$' lets a pattern ignore
BeforeDollar(s) == IF EndsWith(s, 10) THEN SubSeq(s, 1, Len(s) - 1) ELSE s

\* re.match('.*v[0-9].*', s)
MatchVersion(s) ==
    \E i \in 1..Len(s) :
        /\ s[i] = 118
        /\ i + 1 <= Len(s)
        /\ IsDigit(s[i + 1])
        /\ \A j \in 1..(i - 1) : s[j] # 10

\* re.sub('{[^}]*}', '', s)
RECURSIVE StripVariables(_)
StripVariables(s) ==
    IF s = <<>> THEN <<>>
    ELSE IF s[1] = 123 /\ \E j \in 2..Len(s) : s[j] = 125
         THEN LET close == CHOOSE j \in 2..Len(s) :
                               s[j] = 125 /\ \A m \in 2..(j - 1) : s[m] # 125
              IN  StripVariables(SubSeq(s, close + 1, Len(s)))
         ELSE <<s[1]>> \o StripVariables(Tail(s))

\* re.match('^/[/a-z0-9.-]*$', s)
MatchPathName(s) ==
    LET b == BeforeDollar(s)
    IN  /\ Len(b) >= 1
        /\ b[1] = 47
        /\ \A i \in 2..Len(b) :
              b[i] = 47 \/ IsLower(b[i]) \/ IsDigit(b[i]) \/ b[i] = 46 \/ b[i] = 45

\* re.match('^[a-z0-9_]*$', s)
MatchQueryName(s) ==
    LET b == BeforeDollar(s)
    IN  \A i \in 1..Len(b) : IsLower(b[i]) \/ IsDigit(b[i]) \/ b[i] = 95

\* re.match('^[a-z][a-z0-9_]*$', s)
MatchPropertyName(s) ==
    LET b == BeforeDollar(s)
    IN  /\ Len(b) >= 1
        /\ IsLower(b[1])
        /\ \A i \in 2..Len(b) : IsLower(b[i]) \/ IsDigit(b[i]) \/ b[i] = 95

\* s.split(<<sep>>)
RECURSIVE Split(_, _)
Split(s, sep) ==
    IF \A i \in 1..Len(s) : s[i] # sep THEN <<s>>
    ELSE LET at == CHOOSE i \in 1..Len(s) : s[i] = sep /\ \A j \in 1..(i - 1) : s[j] # sep
         IN  <<SubSeq(s, 1, at - 1)>> \o Split(SubSeq(s, at + 1, Len(s)), sep)

\* <<sep>>.join(parts)
RECURSIVE Join(_, _)
Join(parts, sep) ==
    IF parts = <<>> THEN <<>>
    ELSE IF Len(parts) = 1 THEN parts[1]
    ELSE parts[1] \o <<sep>> \o Join(Tail(parts), sep)

RECURSIVE Flatten(_)
Flatten(seqs) == IF seqs = <<>> THEN <<>> ELSE Head(seqs) \o Flatten(Tail(seqs))

\* bool(x) for what a rule tests
Truthy(x) == CASE x.t = "null" -> FALSE
               [] x.t = "int"  -> x.v # 0
               [] OTHER        -> x.v # <<>>

----------------------------------------------------------------------------
(* The collaborators: the resolver validate_spec returns, and inflect. *)

\* resolver.resolve(ref)[1] for a pointer '#/a/b' into the document
RECURSIVE descend(_, _)
descend(node, segments) ==
    IF segments = <<>> THEN Ok(node)
    ELSE IF IsDict(node) /\ Has(node, Str(Head(segments)))
         THEN descend(Get(node, Str(Head(segments)), Null), Tail(segments))
         ELSE Raise          \* RefResolutionError

resolve(s, ref) ==
    IF IsStr(ref) /\ Len(ref.v) >= 2 /\ ref.v[1] = 35 /\ ref.v[2] = 47
    THEN descend(s, Split(SubSeq(ref.v, 3, Len(ref.v)), 47))
    ELSE Raise

\* inflect's singular_noun on a regular noun: False (Null) unless it ends in 's'
singular_noun(w) ==
    IF Len(w) > 1 /\ EndsWith(w, 115) THEN Str(SubSeq(w, 1, Len(w) - 1)) ELSE Null

\* inflect's plural_noun on a regular noun
plural_noun(w) == Str(w \o <<115>>)

----------------------------------------------------------------------------
(* The rules.  A rule returns the sequence of what it yields, each element *)
(* [tuple, location, message]: tuple tells a (location, message) pair from *)
(* a bare value.                                                           *)

Bare(loc)      == [tuple |-> FALSE, location |-> loc, message |-> <<>>]
Pair(loc, msg) == [tuple |-> TRUE, location |-> loc, message |-> msg]

\* spec.get('paths', {}).items()
PathItems(s) == Get(s, Str(S_paths), EmptyDict).v

\* 'paths/"{}"'.format(path_name)
PathLocation(path_name) == S_loc_paths \o Fmt(path_name) \o S_quote

lint_base_path(s) ==
    LET base_path == Get(s, Str(S_basePath), Str(<<>>))
    IN  Ok(IF MatchVersion(base_path.v) THEN <<Bare(Str(S_basePath))>> ELSE <<>>)

lint_path_names(s) ==
    LET P == PathItems(s)
    IN  Ok(Flatten([i \in 1..Len(P) |->
            IF ~MatchPathName(StripVariables(P[i].k.v))
            THEN <<Bare(Str(PathLocation(P[i].k)))>> ELSE <<>>]))

lint_http_methods(s) ==
    LET P == PathItems(s)
    IN  Ok(Flatten([i \in 1..Len(P) |->
            IF EndsWith(P[i].k.v, 125) /\ Has(P[i].v, Str(S_post))
            THEN <<Pair(Str(PathLocation(P[i].k)), S_msg_post)>> ELSE <<>>]))

lint_path_avoid_trailing_slashes(s) ==
    LET P == PathItems(s)
    IN  Ok(Flatten([i \in 1..Len(P) |->
            IF Len(P[i].k.v) > 1 /\ EndsWith(P[i].k.v, 47)
            THEN <<Bare(Str(PathLocation(P[i].k)))>> ELSE <<>>]))

\* a slip: param.get('name') without the default, so that a missing name is
\* None and re.match raises
query_param_no_default(s, p) ==
    IF ~IsDict(p) THEN Raise
    ELSE IF Get(p, Str(S_type), Null) = Str(S_query)
         THEN LET name == Get(p, Str(S_name), Null)
              IN  IF ~IsStr(name) THEN Raise
                  ELSE IF ~MatchQueryName(name.v) THEN Ok(<<Bare(p)>>) ELSE Ok(<<>>)
         ELSE Ok(<<>>)

\* lines 95-99 for one element of an operation's 'parameters'
query_param(s, p) ==
    LET r == IF IsDict(p) /\ Has(p, Str(S_ref))
             THEN resolve(s, Get(p, Str(S_ref), Null))
             ELSE Ok(p)
    IN  IF r.raised THEN Raise
        ELSE LET param == r.val
             IN  IF ~IsDict(param) THEN Raise     \* AttributeError: no attribute 'get'
                 ELSE IF Get(param, Str(S_type), Null) = Str(S_query)
                      THEN LET name == Get(param, Str(S_name), Str(<<>>))
                           IN  IF ~IsStr(name) THEN Raise   \* TypeError in re.match
                               ELSE IF ~MatchQueryName(name.v)
                                    THEN Ok(<<Bare(param)>>)
                                    ELSE Ok(<<>>)
                      ELSE Ok(<<>>)

\* the outcomes of a sequence of steps, in order: raised when one of them raised
Collect(rs) ==
    IF \E i \in 1..Len(rs) : rs[i].raised
    THEN Raise
    ELSE Ok(Flatten([i \in 1..Len(rs) |-> rs[i].val]))

\* lines 93-99 for one entry of a path item
query_method(s, method_def) ==
    IF ~IsDict(method_def) THEN Ok(<<>>)
    ELSE LET params == Get(method_def, Str(S_parameters), EmptyDict)
         IN  CASE params.t = "list" ->
                    Collect([i \in 1..Len(params.v) |-> query_param(s, params.v[i])])
               [] params.t = "dict" ->   \* iterates the keys
                    Collect([i \in 1..Len(params.v) |-> query_param(s, params.v[i].k)])
               [] params.t = "str" ->    \* iterates the characters
                    IF params.v = <<>> THEN Ok(<<>>) ELSE Raise
               [] OTHER -> Raise         \* TypeError: not iterable

lint_query_params(s) ==
    LET P == PathItems(s)
    IN  Collect([i \in 1..Len(P) |->
            Collect([j \in 1..Len(P[i].v.v) |-> query_method(s, P[i].v.v[j].v)])])

\* lines 108-111: the worklist of the object-typed definitions
initial_definitions(s) ==
    LET D == Get(s, Str(S_definitions), EmptyDict).v
    IN  Flatten([i \in 1..Len(D) |->
            IF Get(D[i].v, Str(S_type), Null) = Str(S_object)
            THEN <<[name |-> D[i].k.v, node |-> D[i].v]>> ELSE <<>>])

\* a slip: the nested objects are not put on the worklist
property_iteration_flat(worklist) ==
    LET top  == worklist[Len(worklist)]
        props == Get(top.node, Str(S_properties), EmptyDict).v
    IN  [popped |-> top,
         yields |-> Flatten([i \in 1..Len(props) |->
                       IF ~MatchPropertyName(props[i].k.v)
                       THEN <<Bare(Str(S_loc_defs \o top.name \o S_slash \o Fmt(props[i].k)))>>
                       ELSE <<>>]),
         definitions |-> SubSeq(worklist, 1, Len(worklist) - 1)]

\* lines 114-120: one iteration of the while loop on a non-empty worklist
property_iteration(worklist) ==
    LET top  == worklist[Len(worklist)]
        rest == SubSeq(worklist, 1, Len(worklist) - 1)
        props == Get(top.node, Str(S_properties), EmptyDict).v
        sub(i) == top.name \o S_slash \o Fmt(props[i].k)
    IN  [popped |-> top,
         yields |-> Flatten([i \in 1..Len(props) |->
                       IF ~MatchPropertyName(props[i].k.v)
                       THEN <<Bare(Str(S_loc_defs \o sub(i)))>> ELSE <<>>]),
         definitions |-> rest \o Flatten([i \in 1..Len(props) |->
                       IF Get(props[i].v, Str(S_type), Null) = Str(S_object)
                       THEN <<[name |-> sub(i), node |-> props[i].v]>> ELSE <<>>])]

\* lines 113-120: the while loop, to the end
RECURSIVE property_loop(_, _)
property_loop(worklist, acc) ==
    IF worklist = <<>> THEN acc
    ELSE LET it == property_iteration(worklist)
         IN  property_loop(it.definitions, acc \o it.yields)

lint_property_names(s) == Ok(property_loop(initial_definitions(s), <<>>))

\* lines 132-136 for one entry of a path item
response_method(path_name, method_name, method_def) ==
    IF ~IsDict(method_def) THEN <<>>
    ELSE LET R == Get(method_def, Str(S_responses), EmptyDict).v
         IN  Flatten([i \in 1..Len(R) |->
                LET schema_type == Get(Get(R[i].v, Str(S_schema), EmptyDict), Str(S_type), Null)
                IN  IF Truthy(schema_type) /\ schema_type # Str(S_object)
                    THEN <<Bare(Str(PathLocation(path_name) \o S_slash \o Fmt(method_name)
                                    \o S_loc_responses \o Fmt(R[i].k)))>>
                    ELSE <<>>])

lint_response_objects(s) ==
    LET P == PathItems(s)
    IN  Ok(Flatten([i \in 1..Len(P) |->
            Flatten([j \in 1..Len(P[i].v.v) |->
                response_method(P[i].k, P[i].v.v[j].k, P[i].v.v[j].v)])]))

\* lines 149-155 for one segment of a path
plural_segment(path_name, segment) ==
    IF segment = S_wellknown THEN <<>>
    ELSE LET resource == Join(Split(segment, 45), 32)
             singular == singular_noun(resource)
             plural   == plural_noun(resource)
         IN  IF resource # <<>>
                /\ (singular = Str(resource)
                    \/ (~Truthy(singular) /\ Truthy(plural) /\ plural # Str(resource)))
             THEN <<Pair(Str(PathLocation(path_name)),
                         S_quote \o resource \o S_msg_plural)>>
             ELSE <<>>

lint_plural_resource_names(s) ==
    LET P == PathItems(s)
    IN  Ok(Flatten([i \in 1..Len(P) |->
            LET segments == Split(StripVariables(P[i].k.v), 47)
            IN  Flatten([j \in 1..Len(segments) |-> plural_segment(P[i].k, segments[j])])]))

----------------------------------------------------------------------------
(* run_linter *)

\* 'Error during Swagger schema validation:\n'
S_msg_validation == <<69,114,114,111,114,32,100,117,114,105,110,103,32,83,119,97,103,
                      103,101,114,32,115,99,104,101,109,97,32,118,97,108,105,100,97,
                      116,105,111,110,58,10>>
\* 'Must: Provide API Reference Definition using OpenAPI'
S_guideline_validation ==
    <<77,117,115,116,58,32,80,114,111,118,105,100,101,32,65,80,73,32,82,101,102,101,
      114,101,110,99,101,32,68,101,102,105,110,105,116,105,111,110,32,117,115,105,
      110,103,32,79,112,101,110,65,80,73>>

\* the rules in the order the module defines them
rules == <<"lint_base_path", "lint_path_names", "lint_http_methods",
           "lint_path_avoid_trailing_slashes", "lint_query_params",
           "lint_property_names", "lint_response_objects",
           "lint_plural_resource_names">>

RuleNames == {rules[i] : i \in 1..Len(rules)}

\* func.__doc__, up to the end of its title line (the titles already differ)
docstring(func) ==
    CASE func = "lint_base_path" ->
           \* '\n    Must: Do Not Use URI Versioning\n'
           <<10,32,32,32,32,77,117,115,116,58,32,68,111,32,78,111,116,32,85,115,101,32,
             85,82,73,32,86,101,114,115,105,111,110,105,110,103,10>>
      [] func = "lint_path_names" ->
           \* '\n    Must: Use lowercase separate words with hyphens for Path Segments\n'
           <<10,32,32,32,32,77,117,115,116,58,32,85,115,101,32,108,111,119,101,114,99,
             97,115,101,32,115,101,112,97,114,97,116,101,32,119,111,114,100,115,32,119,
             105,116,104,32,104,121,112,104,101,110,115,32,102,111,114,32,80,97,116,104,
             32,83,101,103,109,101,110,116,115,10>>
      [] func = "lint_http_methods" ->
           \* '\n    Must: Use HTTP Methods Correctly\n'
           <<10,32,32,32,32,77,117,115,116,58,32,85,115,101,32,72,84,84,80,32,77,101,116,
             104,111,100,115,32,67,111,114,114,101,99,116,108,121,10>>
      [] func = "lint_path_avoid_trailing_slashes" ->
           \* '\n    Must: Avoid Trailing Slashes\n'
           <<10,32,32,32,32,77,117,115,116,58,32,65,118,111,105,100,32,84,114,97,105,108,
             105,110,103,32,83,108,97,115,104,101,115,10>>
      [] func = "lint_query_params" ->
           \* '\n    Must: Use snake_case (never camelCase) for Query Parameters\n'
           <<10,32,32,32,32,77,117,115,116,58,32,85,115,101,32,115,110,97,107,101,95,99,
             97,115,101,32,40,110,101,118,101,114,32,99,97,109,101,108,67,97,115,101,41,
             32,102,111,114,32,81,117,101,114,121,32,80,97,114,97,109,101,116,101,114,
             115,10>>
      [] func = "lint_property_names" ->
           \* '\n    Must: Property names must be snake_case (and never camelCase).\n'
           <<10,32,32,32,32,77,117,115,116,58,32,80,114,111,112,101,114,116,121,32,110,
             97,109,101,115,32,109,117,115,116,32,98,101,32,115,110,97,107,101,95,99,97,
             115,101,32,40,97,110,100,32,110,101,118,101,114,32,99,97,109,101,108,67,97,
             115,101,41,46,10>>
      [] func = "lint_response_objects" ->
           \* '\n    Must: Always Return JSON Objects As Top-Level Data Structures To Support Extensibility\n'
           <<10,32,32,32,32,77,117,115,116,58,32,65,108,119,97,121,115,32,82,101,116,117,
             114,110,32,74,83,79,78,32,79,98,106,101,99,116,115,32,65,115,32,84,111,112,
             45,76,101,118,101,108,32,68,97,116,97,32,83,116,114,117,99,116,117,114,101,
             115,32,84,111,32,83,117,112,112,111,114,116,32,69,120,116,101,110,115,105,
             98,105,108,105,116,121,10>>
      [] OTHER ->
           \* '\n    Must: Pluralize Resource Names\n'
           <<10,32,32,32,32,77,117,115,116,58,32,80,108,117,114,97,108,105,122,101,32,82,
             101,115,111,117,114,99,101,32,78,97,109,101,115,10>>

\* func(spec, resolver), run to the end of the generator
call(func, s) ==
    CASE func = "lint_base_path"                   -> lint_base_path(s)
      [] func = "lint_path_names"                  -> lint_path_names(s)
      [] func = "lint_http_methods"                -> lint_http_methods(s)
      [] func = "lint_path_avoid_trailing_slashes" -> lint_path_avoid_trailing_slashes(s)
      [] func = "lint_query_params"                -> lint_query_params(s)
      [] func = "lint_property_names"              -> lint_property_names(s)
      [] func = "lint_response_objects"            -> lint_response_objects(s)
      [] OTHER                                     -> lint_plural_resource_names(s)

Issue(location, message, guideline) ==
    [location |-> location, message |-> message, guideline |-> guideline]

\* lines 176-181: one yielded element becomes an Issue
to_issue(y, func) ==
    Issue(y.location, IF y.tuple THEN y.message ELSE <<>>, docstring(func))

\* lines 175-181: the issues made of what a rule's generator gave
collect_issues(r, func) ==
    IF r.raised THEN Raise
    ELSE Ok([i \in 1..Len(r.val) |-> to_issue(r.val[i], func)])

\* lines 175-181: the issues one rule adds, or the exception it raises
rule_issues(func, s) == collect_issues(call(func, s), func)

\* a == b for Python values: mappings compare without regard to order
RECURSIVE PyEq(_, _)
PyEq(a, b) ==
    CASE a.t # b.t -> FALSE
      [] a.t = "dict" ->
           /\ Len(a.v) = Len(b.v)
           /\ \A i \in 1..Len(a.v) :
                 \E j \in 1..Len(b.v) : a.v[i].k = b.v[j].k /\ PyEq(a.v[i].v, b.v[j].v)
      [] a.t = "list" ->
           /\ Len(a.v) = Len(b.v)
           /\ \A i \in 1..Len(a.v) : PyEq(a.v[i], b.v[i])
      [] OTHER -> a.v = b.v

\* a < b raises TypeError for two Issues: the first field in which they differ
\* is the location, and one of the two locations is not a str
Unorderable(a, b) ==
    /\ ~PyEq(a.location, b.location)
    /\ ~(IsStr(a.location) /\ IsStr(b.location))

\* a < b for two Issues that can be ordered: the namedtuple's field order
IssueLess(a, b) ==
    IF ~PyEq(a.location, b.location) THEN StrLess(a.location.v, b.location.v)
    ELSE IF a.message # b.message THEN StrLess(a.message, b.message)
    ELSE StrLess(a.guideline, b.guideline)

\* x put into a sorted list after the elements that are not greater
RECURSIVE Insert(_, _)
Insert(x, xs) ==
    IF xs = <<>> THEN <<x>>
    ELSE IF IssueLess(x, Head(xs)) THEN <<x>> \o xs
    ELSE <<Head(xs)>> \o Insert(x, Tail(xs))

RECURSIVE StableSort(_, _)
StableSort(xs, acc) ==
    IF xs = <<>> THEN acc ELSE StableSort(Tail(xs), Insert(Head(xs), acc))

\* a slip: the list is returned in the order of collection
sorted_unsorted(xs) == Ok(xs)

\* sorted(xs): a sort compares every element with another one, and elements
\* compare without error exactly within one class (all str locations, or one
\* and the same mapping), so it raises when two classes are present
sorted(xs) ==
    IF \E i, j \in 1..Len(xs) : Unorderable(xs[i], xs[j])
    THEN Raise               \* TypeError: '<' not supported
    ELSE Ok(StableSort(xs, <<>>))

\* a slip: the validator's text alone is the message
validation_failure_bare(e) ==
    <<Issue(Str(<<>>), e, S_guideline_validation)>>

\* lines 166-167: what run_linter returns when validate_spec raised e
validation_failure(e) ==
    <<Issue(Str(<<>>), S_msg_validation \o e, S_guideline_validation)>>

\* lines 171-181: the loop over the rules in a given order
RECURSIVE run_rules(_, _, _)
RECURSIVE next_rule(_, _, _, _)
run_rules(order, s, acc) ==
    IF order = <<>> THEN Ok(acc)
    ELSE next_rule(rule_issues(Head(order), s), order, s, acc)

\* r is what the first rule of order gave: go on with the others
next_rule(r, order, s, acc) ==
    IF r.raised THEN Raise ELSE run_rules(Tail(order), s, acc \o r.val)

\* line 182 after the loop
return_value(r) == IF r.raised THEN Raise ELSE sorted(r.val)

\* lines 169-182: run_linter once validation has passed
lint(s, order) == return_value(run_rules(order, s, <<>>))

----------------------------------------------------------------------------
(* validate_spec, the collaborator: it raises on a document whose shape is *)
(* not the one the rules read (WellFormed is the part of the Swagger 2.0   *)
(* schema they rely on), and it may raise on any other document too.       *)

RECURSIVE WellFormedSchema(_)
WellFormedSchema(x) ==
    /\ IsDict(x)
    /\ LET props == Get(x, Str(S_properties), EmptyDict)
       IN  /\ IsDict(props)
           /\ \A i \in 1..Len(props.v) :
                 IsStr(props.v[i].k) /\ WellFormedSchema(props.v[i].v)

WellFormedOperation(x) ==
    /\ Get(x, Str(S_parameters), List(<<>>)).t = "list"
    /\ LET R == Get(x, Str(S_responses), EmptyDict)
       IN  /\ IsDict(R)
           /\ \A i \in 1..Len(R.v) :
                 /\ IsStr(R.v[i].k)
                 /\ IsDict(R.v[i].v)
                 /\ IsDict(Get(R.v[i].v, Str(S_schema), EmptyDict))

WellFormed(s) ==
    /\ IsDict(s)
    /\ IsStr(Get(s, Str(S_basePath), Str(<<>>)))
    /\ LET P == Get(s, Str(S_paths), Null)
       IN  /\ IsDict(P)
           /\ \A i \in 1..Len(P.v) :
                 /\ IsStr(P.v[i].k)
                 /\ IsDict(P.v[i].v)
                 /\ \A j \in 1..Len(P.v[i].v.v) :
                       /\ IsStr(P.v[i].v.v[j].k)
                       /\ IsDict(P.v[i].v.v[j].v) => WellFormedOperation(P.v[i].v.v[j].v)
    /\ LET D == Get(s, Str(S_definitions), EmptyDict)
       IN  /\ IsDict(D)
           /\ \A i \in 1..Len(D.v) : IsStr(D.v[i].k) /\ WellFormedSchema(D.v[i].v)

\* the texts validate_spec's exception may carry
ValidationErrors ==
    { <<78,111,110,101,32,105,115,32,110,111,116,32,111,102,32,116,121,112,101,32,39,
        111,98,106,101,99,116,39>>,       \* "None is not of type 'object'"
      <<39,115,119,97,103,103,101,114,39,32,105,115,32,97,32,114,101,113,117,105,114,
        101,100,32,112,114,111,112,101,114,116,121>> }  \* "'swagger' is a required property"

----------------------------------------------------------------------------
(* The exit status. *)

Platforms == {"posix", "nt"}

\* the status the parent sees after sys.exit(n): exit(3) keeps n & 0377 on
\* POSIX; ExitProcess keeps 32 bits on Windows, which no length wraps
exit_status(p, n) == IF p = "posix" THEN n % 256 ELSE n

----------------------------------------------------------------------------
(* The input documents of the runner. *)

T_petId     == <<112,101,116,73,100>>                          \* 'petId'
T_limit     == <<108,105,109,105,116>>                         \* 'limit'
T_xparams   == <<120,45,112,97,114,97,109,115>>                \* 'x-params'
T_ref_petId == <<35,47,120,45,112,97,114,97,109,115,47,112,101,116,73,100>> \* '#/x-params/petId'
T_ref_nope  == <<35,47,120,45,112,97,114,97,109,115,47,110,111,112,101>>    \* '#/x-params/nope'
T_pets      == <<47,112,101,116,115>>                          \* '/pets'
T_pets_     == <<47,112,101,116,115,47>>                       \* '/pets/'
T_Pets      == <<47,80,101,116,115>>                           \* '/Pets'
T_greeting  == <<47,103,114,101,101,116,105,110,103,47,123,110,97,109,101,125>> \* '/greeting/{name}'
T_v1        == <<47,118,49>>                                   \* '/v1'
T_Pet       == <<80,101,116>>                                  \* 'Pet'
T_id        == <<105,100>>                                     \* 'id'
T_petName   == <<112,101,116,78,97,109,101>>                   \* 'petName'
T_200       == <<50,48,48>>                                    \* '200'

\* {schema: {type: <ty>}}
Response(ty) == Dict(<<KV(Str(S_schema), Dict(<<KV(Str(S_type), Str(ty))>>))>>)

\* {name: <name>, type: query}
QueryParam(name) == Dict(<<KV(Str(S_name), Str(name)), KV(Str(S_type), Str(S_query))>>)

OpClean    == Dict(<<KV(Str(S_responses), Dict(<<KV(Num(200), Response(S_object))>>))>>)
OpArray    == Dict(<<KV(Str(S_responses), Dict(<<KV(Num(200), Response(S_array))>>))>>)
OpString   == Dict(<<KV(Str(S_responses), Dict(<<KV(Str(T_200), Response(S_string))>>))>>)
OpQueryBad == Dict(<<KV(Str(S_parameters), List(<<QueryParam(T_petId)>>)),
                     KV(Str(S_responses), Dict(<<KV(Str(T_200), Response(S_object))>>))>>)
OpQueryNoName ==
    Dict(<<KV(Str(S_parameters), List(<<Dict(<<KV(Str(S_type), Str(S_query))>>)>>)),
           KV(Str(S_responses), Dict(<<KV(Num(200), Response(S_object))>>))>>)
OpQueryRef ==
    Dict(<<KV(Str(S_parameters), List(<<Dict(<<KV(Str(S_ref), Str(T_ref_petId))>>)>>)),
           KV(Str(S_responses), Dict(<<KV(Num(200), Response(S_object))>>))>>)
OpDangling ==
    Dict(<<KV(Str(S_parameters), List(<<Dict(<<KV(Str(S_ref), Str(T_ref_nope))>>)>>)),
           KV(Str(S_responses), Dict(<<KV(Num(200), Response(S_object))>>))>>)

\* the path items a document of the runner is made of
PathEntries ==
    << KV(Str(T_pets), Dict(<<KV(Str(S_get), OpArray)>>)),
       KV(Str(T_pets), Dict(<<KV(Str(S_get), OpQueryBad), KV(Str(S_post), OpQueryNoName)>>)),
       KV(Str(T_pets), Dict(<<KV(Str(S_parameters), List(<<QueryParam(T_limit)>>)),
                              KV(Str(S_get), OpClean)>>)),
       KV(Str(T_greeting), Dict(<<KV(Str(S_post), OpString)>>)),
       KV(Str(T_pets_), Dict(<<KV(Str(S_get), OpClean)>>)),
       KV(Str(T_Pets), Dict(<<KV(Str(S_get), OpQueryRef)>>)),
       KV(Str(T_Pets), Dict(<<KV(Str(S_get), OpDangling)>>)) >>

\* the entries a set of indices chooses, in the order of the indices
RECURSIVE Pick(_)
Pick(I) ==
    IF I = {} THEN <<>>
    ELSE LET m == CHOOSE i \in I : \A j \in I : i <= j
         IN  <<PathEntries[m]>> \o Pick(I \ {m})

\* the 'paths' mappings of at most MaxPaths of these items, no path template
\* twice.  Each set of items comes in one order only: the other orders give
\* every rule the same yields in another order, which the order of the rules
\* varies already.
PathMappings ==
    { Pick(I) : I \in { J \in SUBSET (1..Len(PathEntries)) :
                          /\ Cardinality(J) <= MaxPaths
                          /\ \A i, j \in J : i # j => PathEntries[i].k # PathEntries[j].k } }

\* {Pet: {type: object, properties: {id: {type: integer}, petName: {type: string}}}}
PetDefinitions ==
    Dict(<<KV(Str(T_Pet), Dict(<<
        KV(Str(S_type), Str(S_object)),
        KV(Str(S_properties), Dict(<<
            KV(Str(T_id), Dict(<<KV(Str(S_type), Str(S_string))>>)),
            KV(Str(T_petName), Dict(<<KV(Str(S_type), Str(S_string))>>))>>))>>))>>)

Document(versioned, paths, defs) ==
    Dict((IF versioned THEN <<KV(Str(S_basePath), Str(T_v1))>> ELSE <<>>)
         \o <<KV(Str(S_paths), Dict(paths)),
              KV(Str(T_xparams), Dict(<<KV(Str(T_petId), QueryParam(T_petId))>>))>>
         \o (IF defs THEN <<KV(Str(S_definitions), PetDefinitions)>> ELSE <<>>))

\* the documents the runner is given: the empty file, a document whose
\* 'paths' is null, and the documents made of the path items above, bare or
\* with a versioned basePath and the Pet definition
RunnerDocuments ==
    { Null, Dict(<<KV(Str(S_paths), Null)>>) }
    \cup { Document(b, q, b) : b \in BOOLEAN, q \in PathMappings }

----------------------------------------------------------------------------
(* The run: run_linter step by step, then the cli command's exit. *)

Init ==
    /\ doc \in RunnerDocuments
    /\ docB = Null /\ spec = Null /\ specB = Null
    /\ pc = "start" /\ exc = ""
    /\ valid = FALSE /\ validB = FALSE
    /\ done = {} /\ issues = <<>>
    /\ result = <<>> /\ resultB = <<>>
    /\ platform = "" /\ exit_code = -1
    /\ definitions = <<>> /\ yielded = <<>> /\ visited = <<>>

\* lines 159-160
normalize ==
    /\ pc = "start"
    /\ LET r == compatibility_layer(doc)
       IN  IF r.raised
           THEN pc' = "raised" /\ exc' = "AttributeError" /\ UNCHANGED spec
           ELSE pc' = "validate" /\ spec' = r.val /\ UNCHANGED exc
    /\ UNCHANGED <<doc, docB, specB, valid, validB, done, issues, result, resultB,
                   platform, exit_code, definitions, yielded, visited>>

\* line 164, validate_spec returns the resolver
validate_passes ==
    /\ pc = "validate"
    /\ WellFormed(spec)
    /\ valid' = TRUE
    /\ pc' = "rules"
    /\ UNCHANGED <<doc, docB, spec, specB, exc, validB, done, issues, result, resultB,
                   platform, exit_code, definitions, yielded, visited>>

\* lines 165-167, validate_spec raises
validate_raises ==
    /\ pc = "validate"
    /\ \E e \in ValidationErrors : result' = validation_failure(e)
    /\ valid' = FALSE
    /\ pc' = "returned"
    /\ UNCHANGED <<doc, docB, spec, specB, exc, validB, done, issues, resultB,
                   platform, exit_code, definitions, yielded, visited>>

\* lines 172-181 for one rule; the rules come in the order globals() holds them
run_rule(func) ==
    /\ pc = "rules"
    /\ func \notin done
    /\ done' = done \cup {func}
    /\ LET r == rule_issues(func, spec)
       IN  IF r.raised
           THEN pc' = "raised" /\ exc' = "Exception" /\ UNCHANGED issues
           ELSE issues' = issues \o r.val /\ UNCHANGED <<pc, exc>>
    /\ UNCHANGED <<doc, docB, spec, specB, valid, validB, result, resultB,
                   platform, exit_code, definitions, yielded, visited>>

\* line 182
return_sorted ==
    /\ pc = "rules"
    /\ done = RuleNames
    /\ LET r == sorted(issues)
       IN  IF r.raised
           THEN pc' = "raised" /\ exc' = "TypeError" /\ UNCHANGED result
           ELSE pc' = "returned" /\ result' = r.val /\ UNCHANGED exc
    /\ UNCHANGED <<doc, docB, spec, specB, valid, validB, done, issues, resultB,
                   platform, exit_code, definitions, yielded, visited>>

\* lines 189-192: run_linter returned, the command exits with the count
cli ==
    /\ pc = "returned"
    /\ \E p \in Platforms :
          /\ platform' = p
          /\ exit_code' = exit_status(p, Len(result))
    /\ pc' = "exited"
    /\ UNCHANGED <<doc, docB, spec, specB, exc, valid, validB, done, issues, result,
                   resultB, definitions, yielded, visited>>

\* line 189: run_linter raised, the interpreter prints the traceback and exits 1
cli_traceback ==
    /\ pc = "raised"
    /\ \E p \in Platforms : platform' = p
    /\ exit_code' = 1
    /\ pc' = "exited"
    /\ UNCHANGED <<doc, docB, spec, specB, exc, valid, validB, done, issues, result,
                   resultB, definitions, yielded, visited>>

Next ==
    \/ normalize
    \/ validate_passes
    \/ validate_raises
    \/ \E func \in RuleNames : run_rule(func)
    \/ return_sorted
    \/ cli
    \/ cli_traceback

Spec == Init /\ [][Next]_vars

----------------------------------------------------------------------------
(* Properties of the run (specification Spec). *)

\* run_linter returned a list
Returned == pc \in {"returned", "exited"} /\ exc = ""

HasPrefix(s, prefix) ==
    Len(s) >= Len(prefix) /\ SubSeq(s, 1, Len(prefix)) = prefix

\* C1: when validate_spec raises, whatever the document, run_linter returns
\* exactly one Issue, whose message begins with 'Error during Swagger schema
\* validation' and whose guideline is the fixed sentinel, and no rule has run.
C1_ValidationFailureIsTheOnlyIssue ==
    (Returned /\ ~valid) =>
        /\ Len(result) = 1
        /\ HasPrefix(result[1].message, S_msg_validation)
        /\ result[1].guideline = S_guideline_validation
        /\ done = {}
        /\ issues = <<>>

\* a document with paths that the rules would find issues in fails validation
C1_Witness ==
    /\ pc = "returned" /\ ~valid
    /\ WellFormed(spec)
    /\ Len(PathItems(spec)) = 2
    /\ lint(spec, rules) # Ok(<<>>)

\* a <= b in the order of the Issue fields; false where '<' is not defined
IssueLeq(a, b) ==
    \/ /\ PyEq(a.location, b.location)
       /\ a.message = b.message
       /\ a.guideline = b.guideline
    \/ /\ ~Unorderable(a, b)
       /\ IssueLess(a, b)

Ascending(xs) == \A i \in 1..(Len(xs) - 1) : IssueLeq(xs[i], xs[i + 1])

\* C2: for every document that passes validation (and whose rules all ran to
\* their end), run_linter returns a list, and the list is ascending by
\* (location, message, guideline).
C2_ReturnsSortedList ==
    (valid /\ done = RuleNames /\ pc # "rules" /\ exc # "Exception") =>
        /\ exc = ""
        /\ Ascending(result)

\* C5: the list run_linter returns is a function of the document alone: in
\* whatever order the rules ran, it is the list the rules give in the order
\* of their definition.
C5_ResultIndependentOfRuleOrder ==
    (Returned /\ valid) =>
        Ok(result) = lint(compatibility_layer(doc).val, rules)

\* the rules ran in another order than that of their definition and found at
\* least three issues, which were not in sorted order before the sort
C5_Witness ==
    /\ pc = "returned" /\ valid
    /\ Len(result) >= 3
    /\ issues # result
    /\ Ok(issues) # run_rules(rules, spec, <<>>)

\* a location of one of the documented forms: '', 'basePath', 'paths/"..."...'
\* or 'definitions/...'
DocumentedLocation(loc) ==
    /\ IsStr(loc)
    /\ \/ loc.v = <<>>
       \/ loc.v = S_basePath
       \/ HasPrefix(loc.v, S_loc_paths)
       \/ HasPrefix(loc.v, S_loc_defs)

\* C6: every Issue run_linter returns has a location that is a string of one
\* of the documented forms.
C6_LocationsAreDocumentedStrings ==
    Returned => \A i \in 1..Len(result) : DocumentedLocation(result[i].location)

\* the parameters of type 'query' without a 'name' in the operations of s
NamelessQueryParams(s) ==
    LET P == PathItems(s)
    IN  { p \in UNION { UNION { LET ps == Get(P[i].v.v[j].v, Str(S_parameters), List(<<>>))
                                IN  { ps.v[k] : k \in 1..Len(ps.v) }
                                : j \in { m \in 1..Len(P[i].v.v) : IsDict(P[i].v.v[m].v) } }
                        : i \in 1..Len(P) } :
            /\ IsDict(p)
            /\ ~Has(p, Str(S_ref))
            /\ Get(p, Str(S_type), Null) = Str(S_query)
            /\ ~Has(p, Str(S_name)) }

\* C7 as stated: a query parameter without a name is reported by the
\* query-parameter rule, and run_linter returns.
C7_NamelessParameterIsReported ==
    (valid /\ done = RuleNames /\ pc # "rules" /\ exc # "Exception") =>
        /\ exc = ""
        /\ \A p \in NamelessQueryParams(spec) :
              \E i \in 1..Len(result) :
                  /\ result[i].guideline = docstring("lint_query_params")
                  /\ result[i].location = p

\* C7 as amended: the query-parameter rule takes a missing name to be the
\* empty string, which matches: it does not raise on such a parameter and
\* yields nothing for it, so no issue of the run is located at it.
C7_NamelessParameterIsSkipped ==
    (valid /\ "lint_query_params" \in done) =>
        \A p \in NamelessQueryParams(spec) :
            /\ query_param(spec, p) = Ok(<<>>)
            /\ \A i \in 1..Len(issues) : issues[i].location # p

\* the rule has run on a document with such a parameter, and the run returned
C7_Witness ==
    /\ pc = "returned" /\ valid
    /\ NamelessQueryParams(spec) # {}
    /\ \E i \in 1..Len(result) : result[i].guideline = docstring("lint_query_params")

----------------------------------------------------------------------------
(* The exit status of the cli command (specification SpecCli): run_linter  *)
(* has returned n issues, one for each of n paths with a trailing slash.   *)

\* '/p<ddd>s/' for the three decimal digits of i
NumberedPath(i) ==
    <<47, 112, 48 + ((i \div 100) % 10), 48 + ((i \div 10) % 10), 48 + (i % 10), 115, 47>>

\* the document with the paths '/p001s/' ... '/p<n>s/'
ManyPaths(n) ==
    Document(FALSE, [i \in 1..n |-> KV(Str(NumberedPath(i)), Dict(<<KV(Str(S_get), OpClean)>>))],
             FALSE)

\* what run_linter returns for it: the trailing-slash issue of each path
TrailingSlashIssues(n) ==
    [i \in 1..n |-> Issue(Str(PathLocation(Str(NumberedPath(i)))), <<>>,
                          docstring("lint_path_avoid_trailing_slashes"))]

InitCli ==
    /\ \E n \in 0..MaxIssues :
          /\ doc = ManyPaths(n)
          /\ issues = TrailingSlashIssues(n)
    /\ spec = compatibility_layer(doc).val
    /\ result = issues
    /\ docB = Null /\ specB = Null
    /\ pc = "returned" /\ exc = ""
    /\ valid = TRUE /\ validB = FALSE
    /\ done = RuleNames
    /\ resultB = <<>>
    /\ platform = "" /\ exit_code = -1
    /\ definitions = <<>> /\ yielded = <<>> /\ visited = <<>>

NextCli == cli

SpecCli == InitCli /\ [][NextCli]_vars

\* C3: the exit code of the process is the number of Issues run_linter
\* returned.
C3_ExitCodeIsIssueCount ==
    (pc = "exited" /\ exc = "") => exit_code = Len(result)

----------------------------------------------------------------------------
(* compatibility_layer on its own, and two runs on documents that differ   *)
(* in the type of status-code keys only (specification SpecCompat).        *)

T_404         == <<52,48,52>>                                  \* '404'
T_description == <<100,101,115,99,114,105,112,116,105,111,110>> \* 'description'
T_xmeta       == <<120,45,109,101,116,97>>                     \* 'x-meta'

\* the operations: integer keys, mixed keys, string keys, no 'responses',
\* 'responses' null, and the keys 200 and '200' side by side
CompatOperations ==
    << Dict(<<KV(Str(S_responses), Dict(<<KV(Num(200), Response(S_array)),
                                          KV(Num(404), Response(S_object))>>))>>),
       Dict(<<KV(Str(S_responses), Dict(<<KV(Str(T_404), Response(S_string)),
                                          KV(Num(200), Response(S_object))>>))>>),
       Dict(<<KV(Str(S_responses), Dict(<<KV(Str(T_200), Response(S_array))>>))>>),
       Dict(<<KV(Str(T_description), Str(T_pets))>>),
       Dict(<<KV(Str(S_responses), Null)>>),
       Dict(<<KV(Str(S_responses), Dict(<<KV(Num(200), Response(S_array)),
                                          KV(Str(T_200), Response(S_object))>>))>>) >>

\* the path items: one operation each, or path-level parameters and an
\* operation, or a mapping-valued extension and an operation, or no mapping
CompatEntries ==
    [i \in 1..Len(CompatOperations) |->
        KV(Str(IF i % 2 = 1 THEN T_pets ELSE T_greeting),
           Dict(<<KV(Str(IF i % 3 = 0 THEN S_post ELSE S_get), CompatOperations[i])>>))]
    \o << KV(Str(T_Pets), Dict(<<KV(Str(S_parameters), List(<<QueryParam(T_limit)>>)),
                                 KV(Str(S_get), CompatOperations[1])>>)),
          KV(Str(T_Pets), Dict(<<KV(Str(T_xmeta), Dict(<<KV(Str(S_name), Str(T_Pet))>>)),
                                 KV(Str(S_get), CompatOperations[3])>>)),
          KV(Str(T_pets_), Null),
          KV(Str(T_pets_), List(<<>>)) >>

RECURSIVE PickCompat(_)
PickCompat(I) ==
    IF I = {} THEN <<>>
    ELSE LET m == CHOOSE i \in I : \A j \in I : i <= j
         IN  <<CompatEntries[m]>> \o PickCompat(I \ {m})

\* the parsed inputs: values that are no mapping, mappings without 'paths' or
\* whose 'paths' is no mapping, and mappings of at most MaxPaths path items
CompatDocuments ==
    { Null, Str(T_pets), List(<<Str(T_pets)>>), EmptyDict,
      Dict(<<KV(Str(S_basePath), Str(T_v1))>>),
      Dict(<<KV(Str(S_paths), Null)>>),
      Dict(<<KV(Str(S_paths), List(<<>>))>>) }
    \cup { Dict(<<KV(Str(S_paths), Dict(PickCompat(I)))>>) :
             I \in { J \in SUBSET (1..Len(CompatEntries)) :
                       /\ Cardinality(J) <= MaxPaths
                       /\ \A i, j \in J : i # j => CompatEntries[i].k # CompatEntries[j].k } }

\* the status codes written as integers
StatusCodes == {200, 404}

\* x with the integer keys in C of every operation's 'responses' mapping
\* written as decimal strings, and nothing else changed
WithStringKeys(x, C) ==
    LET key(k) == IF k.t = "int" /\ k.v \in C THEN Str(Decimal(k.v)) ELSE k
        responses(R) ==
            IF IsDict(R) THEN Dict([i \in 1..Len(R.v) |-> KV(key(R.v[i].k), R.v[i].v)]) ELSE R
        operation(name, o) ==
            IF name = Str(S_parameters) \/ ~IsDict(o) THEN o
            ELSE Dict([i \in 1..Len(o.v) |->
                        IF o.v[i].k = Str(S_responses)
                        THEN KV(o.v[i].k, responses(o.v[i].v)) ELSE o.v[i]])
        item(m) ==
            IF IsDict(m) THEN Dict([i \in 1..Len(m.v) |->
                                     KV(m.v[i].k, operation(m.v[i].k, m.v[i].v))]) ELSE m
        paths(P) ==
            IF IsDict(P) THEN Dict([i \in 1..Len(P.v) |-> KV(P.v[i].k, item(P.v[i].v))]) ELSE P
    IN  IF IsDict(x)
        THEN Dict([i \in 1..Len(x.v) |->
                    IF x.v[i].k = Str(S_paths) THEN KV(x.v[i].k, paths(x.v[i].v)) ELSE x.v[i]])
        ELSE x

\* the operations of a document: the mapping-valued entries of its path
\* items other than 'parameters'
Operations(x) ==
    IF ~IsDict(x) \/ ~IsDict(Get(x, Str(S_paths), EmptyDict)) THEN {}
    ELSE LET P == Get(x, Str(S_paths), EmptyDict).v
         IN  UNION { { P[i].v.v[j].v : j \in { m \in 1..Len(P[i].v.v) :
                                                 /\ P[i].v.v[m].k # Str(S_parameters)
                                                 /\ IsDict(P[i].v.v[m].v) } }
                     : i \in { m \in 1..Len(P) : IsDict(P[m].v) } }

\* no 'responses' mapping holds a key twice
DistinctStatusKeys(x) ==
    \A o \in Operations(x) :
        LET R == Get(o, Str(S_responses), EmptyDict)
        IN  IsDict(R) => \A i, j \in 1..Len(R.v) : i # j => R.v[i].k # R.v[j].k

InitCompat ==
    /\ doc \in CompatDocuments
    /\ docB \in { x \in { WithStringKeys(doc, C) : C \in SUBSET StatusCodes } :
                    DistinctStatusKeys(x) }
    /\ spec = Null /\ specB = Null
    /\ pc = "start" /\ exc = ""
    /\ valid = FALSE /\ validB = FALSE
    /\ done = {} /\ issues = <<>>
    /\ result = <<>> /\ resultB = <<>>
    /\ platform = "" /\ exit_code = -1
    /\ definitions = <<>> /\ yielded = <<>> /\ visited = <<>>

\* lines 159-160, in both runs
normalize_both ==
    /\ pc = "start"
    /\ LET r  == compatibility_layer(doc)
           rB == compatibility_layer(docB)
       IN  IF r.raised \/ rB.raised
           THEN pc' = "raised" /\ exc' = "AttributeError" /\ UNCHANGED <<spec, specB>>
           ELSE pc' = "validate" /\ spec' = r.val /\ specB' = rB.val /\ UNCHANGED exc
    /\ UNCHANGED <<doc, docB, valid, validB, done, issues, result, resultB,
                   platform, exit_code, definitions, yielded, visited>>

\* lines 163-182 for one run with validate_spec's answer: the list returned,
\* or the exception
outcome(v, s, e) == IF v THEN lint(s, rules) ELSE Ok(validation_failure(e))

\* where two runs with the outcomes r and rB end
both_end(r, rB) ==
    /\ result' = IF r.raised THEN <<>> ELSE r.val
    /\ resultB' = IF rB.raised THEN <<>> ELSE rB.val
    /\ pc' = IF r.raised /\ rB.raised THEN "raised"
             ELSE IF ~r.raised /\ ~rB.raised THEN "returned"
             ELSE "diverged"
    /\ exc' = IF r.raised \/ rB.raised THEN "Exception" ELSE ""

\* lines 163-182, in both runs: validate_spec gives equal inputs equal answers
lint_both ==
    /\ pc = "validate"
    /\ \E v, vB \in BOOLEAN : \E e, eB \in ValidationErrors :
          /\ v => WellFormed(spec)
          /\ vB => WellFormed(specB)
          /\ spec = specB => (v = vB /\ e = eB)
          /\ valid' = v /\ validB' = vB
          /\ both_end(outcome(v, spec, e), outcome(vB, specB, eB))
    /\ UNCHANGED <<doc, docB, spec, specB, done, issues, platform, exit_code,
                   definitions, yielded, visited>>

NextCompat == normalize_both \/ lint_both

SpecCompat == InitCompat /\ [][NextCompat]_vars

\* compatibility_layer has returned in both runs
Normalized == pc # "start" /\ exc # "AttributeError"

\* every key of every operation's 'responses' mapping is a string
StatusKeysAreStrings(x) ==
    \A o \in Operations(x) :
        LET R == Get(o, Str(S_responses), EmptyDict)
        IN  IsDict(R) /\ \A i \in 1..Len(R.v) : IsStr(R.v[i].k)

\* C4: two documents that differ only in status-code keys being integers in
\* one and the equal decimal strings in the other give the same list of
\* issues (or fail alike), and after compatibility_layer every key of every
\* operation's 'responses' mapping is a string.
C4_StatusKeyTypeDoesNotMatter ==
    /\ pc # "diverged"
    /\ pc = "returned" => result = resultB
    /\ Normalized => StatusKeysAreStrings(spec) /\ StatusKeysAreStrings(specB)

\* the two documents differ, both pass validation, and the issue found lies
\* at a response whose key is an integer in one of them
C4_Witness ==
    /\ pc = "returned"
    /\ doc # docB
    /\ valid /\ validB
    /\ ~StatusKeysAreStrings(docB)
    /\ result # <<>>

\* C9: compatibility_layer raises on no parsed input, and returns an input
\* that is no mapping unchanged.
C9_CompatibilityLayerNeverRaises ==
    /\ exc # "AttributeError"
    /\ (pc # "start" /\ ~IsDict(doc)) => spec = doc

\* C10: what compatibility_layer returns is its input with the keys of the
\* existing 'responses' mappings in string form: no key added or removed,
\* no value changed.
C10_OnlyStatusKeysChange ==
    Normalized => spec = WithStringKeys(doc, StatusCodes)

----------------------------------------------------------------------------
(* lint_property_names step by step (specification SpecProps). *)

T_a     == <<97>>                                              \* 'a'
T_b     == <<98>>                                              \* 'b'
T_B     == <<66>>                                              \* 'B'
T_a_b   == <<97,47,98>>                                        \* 'a/b'
T_c     == <<99>>                                              \* 'c'
T_Owner == <<79,119,110,101,114>>                              \* 'Owner'

\* {type: string}
Leaf == Dict(<<KV(Str(S_type), Str(S_string))>>)

\* {type: object, properties: {...}}
Object(props) == Dict(<<KV(Str(S_type), Str(S_object)), KV(Str(S_properties), Dict(props))>>)

\* the names of the property that is no object
LeafNames == {T_b, T_a_b}

\* what may follow the property 'a': nothing, or the object 'c' with the
\* property 'B'
Siblings == { <<>>, <<KV(Str(T_c), Object(<<KV(Str(T_B), Leaf)>>))>> }

\* the schemas with at most d objects inside one another
RECURSIVE Schemas(_)
Schemas(d) ==
    IF d = 0 THEN {Leaf}
    ELSE {Leaf} \cup
         { Object(<<KV(Str(n), Leaf), KV(Str(T_a), x)>> \o sib) :
             n \in LeafNames, x \in Schemas(d - 1), sib \in Siblings }

\* the documents: the definition Pet, with at most MaxDepth levels of objects
\* below it, and the definition Owner
PropertyDocuments ==
    { Dict(<<KV(Str(S_definitions), Dict(<<KV(Str(T_Pet), x), KV(Str(T_Owner), y)>>))>>) :
        x \in Schemas(MaxDepth + 1),
        y \in { Leaf, Dict(<<KV(Str(S_type), Str(S_object))>>), Object(<<KV(Str(T_B), Leaf)>>) } }

InitProps ==
    /\ doc \in PropertyDocuments
    /\ spec = compatibility_layer(doc).val
    /\ docB = Null /\ specB = Null
    /\ pc = "start" /\ exc = ""
    /\ valid = TRUE /\ validB = FALSE
    /\ done = {} /\ issues = <<>>
    /\ result = <<>> /\ resultB = <<>>
    /\ platform = "" /\ exit_code = -1
    /\ definitions = <<>> /\ yielded = <<>> /\ visited = <<>>

\* lines 108-111
collect_definitions ==
    /\ pc = "start"
    /\ definitions' = initial_definitions(spec)
    /\ pc' = "loop"
    /\ UNCHANGED <<doc, docB, spec, specB, exc, valid, validB, done, issues, result,
                   resultB, platform, exit_code, yielded, visited>>

\* what one iteration of the loop leaves
after_iteration(it) ==
    /\ definitions' = it.definitions
    /\ yielded' = yielded \o it.yields
    /\ visited' = Append(visited, it.popped)

\* lines 113-120: one iteration of the while loop
pop_definition ==
    /\ pc = "loop"
    /\ definitions # <<>>
    /\ after_iteration(property_iteration(definitions))
    /\ UNCHANGED <<doc, docB, spec, specB, pc, exc, valid, validB, done, issues, result,
                   resultB, platform, exit_code>>

\* line 113: the worklist is empty, the generator ends
loop_ends ==
    /\ pc = "loop"
    /\ definitions = <<>>
    /\ pc' = "returned"
    /\ UNCHANGED <<doc, docB, spec, specB, exc, valid, validB, done, issues, result,
                   resultB, platform, exit_code, definitions, yielded, visited>>

NextProps == collect_definitions \/ pop_definition \/ loop_ends

SpecProps == InitProps /\ [][NextProps]_vars

\* the chains of properties below an object: each a sequence of positions,
\* all but the last of which choose a property of type 'object'
RECURSIVE ChainsBelow(_)
ChainsBelow(x) ==
    LET props == Get(x, Str(S_properties), EmptyDict).v
    IN  UNION { {<<i>>} \cup
                (IF Get(props[i].v, Str(S_type), Null) = Str(S_object)
                 THEN { <<i>> \o c : c \in ChainsBelow(props[i].v) }
                 ELSE {})
                : i \in 1..Len(props) }

\* the chains of a document: an object-typed definition and a chain below it
Chains(s) ==
    LET D == Get(s, Str(S_definitions), EmptyDict).v
    IN  UNION { { [def |-> i, path |-> c] : c \in ChainsBelow(D[i].v) }
                : i \in { m \in 1..Len(D) : Get(D[m].v, Str(S_type), Null) = Str(S_object) } }

\* the property a chain of positions ends at, below the node x
RECURSIVE PropertyAt(_, _)
PropertyAt(x, path) ==
    LET p == Get(x, Str(S_properties), EmptyDict).v[Head(path)]
    IN  IF Len(path) = 1 THEN p ELSE PropertyAt(p.v, Tail(path))

\* the names along a chain of positions, below the node x
RECURSIVE NamesAlong(_, _)
NamesAlong(x, path) ==
    IF path = <<>> THEN <<>>
    ELSE LET p == Get(x, Str(S_properties), EmptyDict).v[Head(path)]
         IN  <<p.k.v>> \o NamesAlong(p.v, Tail(path))

Definition(s, c) == Get(s, Str(S_definitions), EmptyDict).v[c.def]

\* <def>/<p1>/.../<pn>
ChainName(s, c) ==
    Join(<<Definition(s, c).k.v>> \o NamesAlong(Definition(s, c).v, c.path), 47)

\* definitions/<def>/<p1>/.../<pn>
ChainLocation(s, c) == Str(S_loc_defs \o ChainName(s, c))

\* the name pn does not match ^[a-z][a-z0-9_]*$
Violates(s, c) == ~MatchPropertyName(PropertyAt(Definition(s, c).v, c.path).k.v)

\* the chains that end at a property of type 'object'
ObjectChains(s) ==
    { c \in Chains(s) :
        Get(PropertyAt(Definition(s, c).v, c.path).v, Str(S_type), Null) = Str(S_object) }

\* how often the rule has yielded the location loc
TimesYielded(loc) == Cardinality({ k \in 1..Len(yielded) : yielded[k].location = loc })

\* how often the loop has popped the entry e
TimesVisited(e) == Cardinality({ k \in 1..Len(visited) : visited[k] = e })

=============================================================================
